---- MODULE Spec2Model ----
(***************************************************************************)
(* A model of the bracket reconstruction (prep_data.py) and of the         *)
(* ranking algorithms (analyse_data.py) of tennis_algorithms.              *)
(*                                                                         *)
(* A row of the data is a record; its fields are the columns of col_dict   *)
(* that the modelled functions read or write:                              *)
(*   tourn  = row[10]  "Tournament-Start"                                  *)
(*   p1, p2 = row[4], row[5]                                               *)
(*   winner = row[11], loser = row[12]                                     *)
(*   round  = row[13]  (the string "0" stands for the integer 0 that       *)
(*                      read_data appends)                                 *)
(*   r      = row[14]                                                      *)
(* and, for compare_wbw_wta,                                               *)
(*   date   = row[1]   the start date, a number of days                    *)
(*   rank1, rank2 = row[6], row[7]   the official ranks, 0 for none        *)
(***************************************************************************)
EXTENDS Integers, Sequences, FiniteSets, TLC

VARIABLES
    data,                  \* the list of rows handed to the running function
    truth,                 \* per row: how the instance was built (never read by the code)
    pc,                    \* position of the running function
    tourn_list,            \* tournament-instances not yet iterated
    tourn,                 \* the tournament-instance of the current iteration
    tourn_data,            \* its rows, as positions in data
    stage_iterable,        \* reconstruct_brackets: list(range(round(num_stages), 0, -1))
    stages_left,           \* reconstruct_brackets: the stages the for loop has not reached
    stage,                 \* reconstruct_brackets: the loop variable
    round_name,            \* reconstruct_brackets: the label of the current stage
    current_stage_losers,  \* reconstruct_brackets: set(losers) - set(winners)
    row,                   \* position of the row loop in tourn_data / data
    reported,              \* the conditions the function has reported to its caller
    final_counter,         \* reconstruct_brackets_rr
    semi_final_counter,    \* reconstruct_brackets_rr
    final_lineup_repeated,       \* reconstruct_brackets_rr: a position in data, 0 = unbound
    semi_final_lineup_repeated,  \* reconstruct_brackets_rr: a position in data, 0 = unbound
    group_stage_losers,    \* reconstruct_brackets_rr
    finalists,             \* reconstruct_brackets_rr
    match_counter,         \* calc_ww: the dict of wins
    wdl_dict,              \* calc_wdl: the dict of scores, each a fraction <<n, d>>
    result,                \* the list the ranking function returns
    caller,                \* calc_wbw: the function that called it, "" for a direct call
    stopping_threshold,    \* calc_wbw: the threshold is 10^(-stopping_threshold)
    unique_players,        \* calc_wbw: list(set(...)), the order in which the dicts list their keys
    wbw_dict,              \* calc_wbw: the scores, each a fraction <<n, d>>
    beaten_by_dict,        \* calc_wbw: per player, the winners of the rows she lost
    shares_dict,           \* calc_wbw
    loop_i,                \* calc_wbw: the i of "for i in range(1000)"
    max_score_pre,         \* calc_wbw
    min_score_pre,         \* calc_wbw
    player_pos,            \* calc_wbw: position of "for k, victors in beaten_by_dict.items()"
    converged,             \* calc_wbw: the loop was left by its break
    pre_scores,            \* wbw_dict as the current iteration found it (never read by the code)
    all_data,              \* compare_wbw_wta
    tourn_wbw_data,        \* compare_wbw_wta: the rows of the trailing window
    ranks_data,            \* compare_wbw_wta: per player [score] or [score, rank]
    ranks_data_alt,        \* compare_wbw_wta: per player [position] or [position, rank]
    all_ranks,             \* compare_wbw_wta
    all_ranks_alt,         \* compare_wbw_wta
    emitted                \* per element of all_ranks: whose it is (never read by the code)

vars == <<data, truth, pc, tourn_list, tourn, tourn_data, stage_iterable, stages_left, stage,
          round_name, current_stage_losers, row, reported, final_counter,
          semi_final_counter, final_lineup_repeated, semi_final_lineup_repeated,
          group_stage_losers, finalists, match_counter, wdl_dict, result, caller,
          stopping_threshold, unique_players, wbw_dict, beaten_by_dict, shares_dict, loop_i,
          max_score_pre, min_score_pre, player_pos, converged, pre_scores, all_data,
          tourn_wbw_data, ranks_data, ranks_data_alt, all_ranks, all_ranks_alt, emitted>>

\* the locals of reconstruct_brackets
ko_locals == <<stage_iterable, stages_left, stage, round_name, current_stage_losers>>

\* the locals of reconstruct_brackets_rr
rr_counters == <<final_counter, semi_final_counter, final_lineup_repeated,
                 semi_final_lineup_repeated>>
rr_locals == <<rr_counters, group_stage_losers, finalists>>

\* the state of the ranking functions
rank_locals == <<match_counter, wdl_dict, result>>

\* the locals of calc_wbw
wbw_locals == <<caller, stopping_threshold, unique_players, wbw_dict, beaten_by_dict,
                shares_dict, loop_i, max_score_pre, min_score_pre, player_pos, converged,
                pre_scores>>

\* the locals of compare_wbw_wta
cmp_locals == <<all_data, tourn_wbw_data, ranks_data, ranks_data_alt, all_ranks,
                all_ranks_alt, emitted>>

\* calc_wbw has not been called
WBWIdle ==
    /\ caller = ""
    /\ stopping_threshold = 0
    /\ unique_players = <<>>
    /\ wbw_dict = <<>>
    /\ beaten_by_dict = <<>>
    /\ shares_dict = <<>>
    /\ loop_i = 0
    /\ max_score_pre = <<0, 1>>
    /\ min_score_pre = <<0, 1>>
    /\ player_pos = 0
    /\ converged = FALSE
    /\ pre_scores = <<>>

\* compare_wbw_wta has not been called
CmpIdle ==
    /\ all_data = <<>>
    /\ tourn_wbw_data = <<>>
    /\ ranks_data = <<>>
    /\ ranks_data_alt = <<>>
    /\ all_ranks = <<>>
    /\ all_ranks_alt = <<>>
    /\ emitted = <<>>

----------------------------------------------------------------------------
(* Bounds of the model *)

\* the largest number of stages of a generated knockout bracket
MaxStages == 4
\* lists of at most this length are tried in every order; longer ones in eight orders
MaxPermLen == 4

----------------------------------------------------------------------------
(* Values *)

\* row[13] as read_data leaves it: the integer 0
NoRound == "0"

\* tournament_dict, its integer keys
tournament_dict == (1 :> "Final") @@ (2 :> "Semi-final") @@ (3 :> "Quarter-final")
\* tournament_dict["x"]
ThirdPlacePlayoff == "Third-place Playoff"
\* tournament_dict["group"]
GroupStage == "Group Stage"

Range(s) == {s[i] : i \in DOMAIN s}

\* list.index(x): the 0-based position of the first x
Index(s, x) == (CHOOSE i \in DOMAIN s : s[i] = x /\ \A j \in 1..(i - 1) : s[j] # x) - 1

\* [x for x in data if x[10] == tourn], as positions in data
TournData(d, t) == SelectSeq([i \in 1..Len(d) |-> i], LAMBDA i : d[i].tourn = t)

----------------------------------------------------------------------------
(* reconstruct_brackets *)

\* round(math.log(m + 1, 2)): the k with 2^(k - 1/2) <= m + 1 < 2^(k + 1/2)
NumStages(m) ==
    CHOOSE k \in 0..(m + 1) : 2^(2 * k) <= 2 * (m + 1) * (m + 1)
                               /\ (m + 1) * (m + 1) < 2^(2 * k + 1)

\* list(range(k, 0, -1))
StageIterable(k) == [i \in 1..k |-> k - i + 1]

\* a variant of RoundName that looks the label up by the position of the stage
RoundNameByPosition(stg, st_it) ==
    IF Index(st_it, stg) + 1 \in DOMAIN tournament_dict
    THEN tournament_dict[Index(st_it, stg) + 1]
    ELSE "Round " \o ToString(Index(st_it, stg) + 1)

\* tournament_dict[stage] if stage is a key, else f"Round {index + 1}"
RoundName(stg, st_it) ==
    IF stg \in DOMAIN tournament_dict
    THEN tournament_dict[stg]
    ELSE "Round " \o ToString(Index(st_it, stg) + 1)

\* a variant of RoundNumber that numbers the stages from the final
RoundNumberFromFinal(stg, st_it) == stg

\* stage_iterable.index(stage) + 1
RoundNumber(stg, st_it) == Index(st_it, stg) + 1

\* stage_iterable.index(stage) + 2
PlayoffNumber(stg, st_it) == Index(st_it, stg) + 2

\* a variant of CurrentStageLosers that forgets to take the winners out
AllLosers(d, td) == {d[i].loser : i \in {j \in Range(td) : d[j].round = NoRound}}

\* set(losers) - set(winners) over the rows with x[13] == 0
CurrentStageLosers(d, td) ==
    {d[i].loser : i \in {j \in Range(td) : d[j].round = NoRound}}
        \ {d[i].winner : i \in {j \in Range(td) : d[j].round = NoRound}}

\* the body of "for row in tourn_data"
ReconstructRow(rec, stg, st_it, rname, csl) ==
    IF rec.round # NoRound
    THEN rec
    ELSE LET a == IF rec.loser \in csl
                  THEN [rec EXCEPT !.round = rname, !.r = RoundNumber(stg, st_it)]
                  ELSE rec
         IN  IF stg = 2 /\ a.winner \in csl /\ a.loser \in csl
             THEN [a EXCEPT !.round = ThirdPlacePlayoff, !.r = PlayoffNumber(stg, st_it)]
             ELSE a

KOBeginTourn ==
    /\ pc = "ko_tourn"
    /\ \E t \in tourn_list :
         /\ tourn' = t
         /\ tourn_list' = tourn_list \ {t}
         /\ tourn_data' = TournData(data, t)
         /\ stage_iterable' = StageIterable(NumStages(Len(tourn_data')))
         /\ stages_left' = stage_iterable'
    /\ pc' = "ko_stage"
    /\ UNCHANGED <<data, truth, stage, round_name, current_stage_losers, row, reported, rank_locals,
                   rr_locals,
                   wbw_locals, cmp_locals>>

KOBeginStage ==
    /\ pc = "ko_stage"
    /\ stages_left # <<>>
    /\ stage' = Head(stages_left)
    /\ stages_left' = Tail(stages_left)
    /\ round_name' = RoundName(stage', stage_iterable)
    /\ current_stage_losers' = CurrentStageLosers(data, tourn_data)
    /\ row' = 1
    /\ pc' = "ko_row"
    /\ UNCHANGED <<data, truth, tourn_list, tourn, tourn_data, stage_iterable, reported,
                   rank_locals, rr_locals,
                   wbw_locals, cmp_locals>>

KORow ==
    /\ pc = "ko_row"
    /\ row <= Len(tourn_data)
    /\ data' = [data EXCEPT ![tourn_data[row]] =
                  ReconstructRow(@, stage, stage_iterable, round_name,
                                 current_stage_losers)]
    /\ row' = row + 1
    /\ pc' = IF row = Len(tourn_data) THEN "ko_stage" ELSE "ko_row"
    /\ UNCHANGED <<truth, tourn_list, tourn, tourn_data, stage_iterable, stages_left, stage,
                   round_name, current_stage_losers, reported, rank_locals, rr_locals,
                   wbw_locals, cmp_locals>>

KOEndTourn ==
    /\ pc = "ko_stage"
    /\ stages_left = <<>>
    /\ pc' = "ko_tourn"
    /\ UNCHANGED <<data, truth, tourn_list, tourn, tourn_data, stage_iterable, stages_left, stage,
                   round_name, current_stage_losers, row, reported, rank_locals, rr_locals,
                   wbw_locals, cmp_locals>>

KOReturn ==
    /\ pc = "ko_tourn"
    /\ tourn_list = {}
    /\ pc' = "done"
    /\ UNCHANGED <<data, truth, tourn_list, tourn, tourn_data, stage_iterable, stages_left, stage,
                   round_name, current_stage_losers, row, reported, rank_locals, rr_locals,
                   wbw_locals, cmp_locals>>

----------------------------------------------------------------------------
(* The inputs of reconstruct_brackets *)

Row(t, a, b, w) ==
    [tourn |-> t, p1 |-> a, p2 |-> b, winner |-> w, loser |-> IF w = a THEN b ELSE a,
     round |-> NoRound, r |-> 0]

\* the rows of a list in another order
Reorder(s, f) == [i \in 1..Len(s) |-> s[f[i]]]

Rotation(n, s) == [i \in 1..n |-> ((i - 1 + s) % n) + 1]

Orders(n) ==
    IF n <= MaxPermLen
    THEN {f \in [1..n -> 1..n] : \A i, j \in 1..n : f[i] = f[j] => i = j}
    ELSE LET rots == {Rotation(n, (q * n) \div 4) : q \in 0..3}
         IN  rots \cup {[i \in 1..n |-> n + 1 - f[i]] : f \in rots}

\* the winner of the match of round i in slot j of a bracket; the players of round 1
\* are 2j-1 and 2j, and the second player of a match wins exactly the matches of ups
RECURSIVE Win(_, _, _)
Win(i, j, ups) ==
    IF i = 0 THEN j
    ELSE IF <<i, j>> \in ups THEN Win(i - 1, 2 * j, ups) ELSE Win(i - 1, 2 * j - 1, ups)

Match(t, i, j, ups) ==
    [rec |-> Row(t, Win(i - 1, 2 * j - 1, ups), Win(i - 1, 2 * j, ups), Win(i, j, ups)),
     tr  |-> [round |-> i, playoff |-> FALSE, shape |-> "bracket"]]

\* the 2^k - 1 matches of a single-elimination bracket of k stages, round by round
RECURSIVE Bracket(_, _, _, _)
Bracket(t, k, i, ups) ==
    IF i > k THEN <<>>
    ELSE [j \in 1..(2^(k - i)) |-> Match(t, i, j, ups)] \o Bracket(t, k, i + 1, ups)

MatchIds(k) == {<<i, j>> \in (1..k) \X (1..(2^k)) : j <= 2^(k - i)}

\* the match of the two semi-final losers
Playoff(t, k, w) ==
    LET s1 == Match(t, k - 1, 1, {}).rec.loser
        s2 == Match(t, k - 1, 2, {}).rec.loser
    IN  [rec |-> Row(t, s1, s2, IF w = 1 THEN s1 ELSE s2),
         tr  |-> [round |-> k, playoff |-> TRUE, shape |-> "bracket"]]

Drop(s, d) == [i \in 1..(Len(s) - 1) |-> IF i < d THEN s[i] ELSE s[i + 1]]

\* what the instance a row belongs to is: "bracket" (a complete bracket), "playoff"
\* (a bracket and a third-place playoff) or "dropped" (a bracket with a row missing)
Shaped(s, sh) == [i \in 1..Len(s) |-> [s[i] EXCEPT !.tr.shape = sh]]

\* one tournament-instance: a bracket, a bracket with a third-place playoff, or a
\* bracket with one row missing
KOInstances ==
    {Bracket(1, k, 1, ups) : <<k, ups>> \in
        {<<k, ups>> \in (1..MaxStages) \X ({{}} \cup {{m} : m \in MatchIds(MaxStages)}) :
            ups \subseteq MatchIds(k)}}
    \cup {Shaped(Bracket(1, kw[1], 1, {}) \o <<Playoff(1, kw[1], kw[2])>>, "playoff") :
            kw \in (2..MaxStages) \X {1, 2}}
    \cup UNION {{Shaped(Drop(Bracket(1, k, 1, {}), d), "dropped") : d \in 1..(2^k - 1)} :
                    k \in 2..MaxStages}

\* a second tournament-instance in the same list: none, or a final alone
KOSecond == {<<>>, Bracket(2, 1, 1, {})}

KOInit ==
    /\ \E inst \in KOInstances, snd \in KOSecond :
         \E f \in Orders(Len(inst) + Len(snd)) :
            LET s == Reorder(inst \o snd, f)
            IN  /\ data = [i \in 1..Len(s) |-> s[i].rec]
                /\ truth = [i \in 1..Len(s) |-> s[i].tr]
    /\ pc = "ko_tourn"
    /\ tourn_list = {data[i].tourn : i \in DOMAIN data}
    /\ tourn = 0
    /\ tourn_data = <<>>
    /\ stage_iterable = <<>>
    /\ stages_left = <<>>
    /\ stage = 0
    /\ round_name = NoRound
    /\ current_stage_losers = {}
    /\ row = 0
    /\ reported = {}
    /\ final_counter = 0
    /\ semi_final_counter = 0
    /\ final_lineup_repeated = 0
    /\ semi_final_lineup_repeated = 0
    /\ group_stage_losers = {}
    /\ finalists = {}
    /\ match_counter = <<>>
    /\ wdl_dict = <<>>
    /\ result = <<>>
    /\ WBWIdle
    /\ CmpIdle

KONext == KOBeginTourn \/ KOBeginStage \/ KORow \/ KOEndTourn \/ KOReturn

\* reconstruct_brackets on one list of rows
SpecKO == KOInit /\ [][KONext]_vars

----------------------------------------------------------------------------
(* reconstruct_brackets_rr *)

\* list(set(player 1s + player 2s)) of the tournament-instance
AllPlayers(d, td) == {d[i].p1 : i \in Range(td)} \cup {d[i].p2 : i \in Range(td)}

\* match_counter after the counting loop
MatchCounter(d, td) ==
    [p \in AllPlayers(d, td) |->
        Cardinality({i \in Range(td) : d[i].p1 = p})
            + Cardinality({i \in Range(td) : d[i].p2 = p})]

\* the values min() is given: [v for v in match_counter.values() if v > 2]
OverTwo(mc) == {mc[p] : p \in {q \in DOMAIN mc : mc[q] > 2}}

MinMatches(mc) == CHOOSE v \in OverTwo(mc) : \A w \in OverTwo(mc) : v <= w

MaxMatches(mc) == CHOOSE v \in Range(mc) : \A w \in Range(mc) : w <= v

GroupStageLosers(mc) ==
    LET min_matches == MinMatches(mc) IN {p \in DOMAIN mc : mc[p] <= min_matches}

Finalists(mc) ==
    LET max_matches == MaxMatches(mc) IN {p \in DOMAIN mc : mc[p] = max_matches}

GroupRow(rec) == [rec EXCEPT !.round = GroupStage, !.r = 1]

\* a variant of FinalRow that takes the round number of the semi-final
FinalRowNumberTwo(rec) == [rec EXCEPT !.round = tournament_dict[1], !.r = 2]

FinalRow(rec) == [rec EXCEPT !.round = tournament_dict[1], !.r = 3]

SemiFinalRow(rec) == [rec EXCEPT !.round = tournament_dict[2], !.r = 2]

\* a variant of ReupdateEarlier that makes the earlier row a semi-final
ReupdateAsSemi(rec) == [rec EXCEPT !.round = tournament_dict[2], !.r = 2]

\* a variant of ReupdateEarlier that leaves the earlier row as it was labelled
KeepEarlier(rec) == rec

\* the earlier-encountered row of a repeated line-up becomes a group match
ReupdateEarlier(rec) == GroupRow(rec)

\* a variant of DefaultRow that leaves the row as it is
LeaveRow(rec) == rec

\* the closing else of the row loop
DefaultRow(rec) == GroupRow(rec)

RRBeginTourn ==
    /\ pc = "rr_tourn"
    /\ \E t \in tourn_list :
         /\ tourn' = t
         /\ tourn_list' = tourn_list \ {t}
         /\ tourn_data' = TournData(data, t)
         /\ \E mc \in {MatchCounter(data, TournData(data, t))} :
                IF OverTwo(mc) = {}
                THEN \* min() of an empty list
                     /\ pc' = "ValueError"
                     /\ UNCHANGED <<final_counter, semi_final_counter, row,
                                    group_stage_losers, finalists>>
                ELSE /\ pc' = "rr_row"
                     /\ group_stage_losers' = GroupStageLosers(mc)
                     /\ finalists' = Finalists(mc)
                     /\ final_counter' = 1
                     /\ semi_final_counter' = 2
                     /\ row' = 1
    /\ UNCHANGED <<data, truth, reported, rank_locals, ko_locals, final_lineup_repeated,
                   semi_final_lineup_repeated,
                   wbw_locals, cmp_locals>>

RRRow ==
    /\ pc = "rr_row"
    /\ row <= Len(tourn_data)
    /\ LET gsl == group_stage_losers
           fin == finalists
           i   == tourn_data[row]
           rec == data[i]
       IN
           /\ IF rec.p1 \in gsl \/ rec.p2 \in gsl
              THEN /\ data' = [data EXCEPT ![i] = GroupRow(rec)]
                   /\ UNCHANGED rr_counters
              ELSE IF rec.p1 \in fin /\ rec.p2 \in fin
              THEN IF final_counter = 1
                   THEN /\ data' = [data EXCEPT ![i] = FinalRow(rec)]
                        /\ final_counter' = final_counter - 1
                        /\ final_lineup_repeated' = i
                        /\ UNCHANGED <<semi_final_counter, semi_final_lineup_repeated>>
                   ELSE /\ data' = [data EXCEPT
                                      ![i] = FinalRow(rec),
                                      ![final_lineup_repeated] = ReupdateEarlier(@)]
                        /\ UNCHANGED rr_counters
              ELSE IF (rec.p1 \in fin \/ rec.p2 \in fin) /\ rec.round = NoRound
              THEN IF semi_final_counter = 2
                   THEN /\ data' = [data EXCEPT ![i] = SemiFinalRow(rec)]
                        /\ semi_final_counter' = semi_final_counter - 1
                        /\ semi_final_lineup_repeated' = i
                        /\ UNCHANGED <<final_counter, final_lineup_repeated>>
                   ELSE IF semi_final_counter = 1
                   THEN /\ data' = [data EXCEPT ![i] = SemiFinalRow(rec)]
                        /\ semi_final_counter' = semi_final_counter - 1
                        /\ UNCHANGED <<final_counter, final_lineup_repeated,
                                       semi_final_lineup_repeated>>
                   ELSE /\ data' = [data EXCEPT
                                      ![i] = SemiFinalRow(rec),
                                      ![semi_final_lineup_repeated] = ReupdateEarlier(@)]
                        /\ UNCHANGED rr_counters
              ELSE /\ data' = [data EXCEPT ![i] = DefaultRow(rec)]
                   /\ UNCHANGED rr_counters
    /\ row' = row + 1
    /\ pc' = IF row = Len(tourn_data) THEN "rr_tourn" ELSE "rr_row"
    /\ UNCHANGED <<truth, tourn_list, tourn, tourn_data, reported, rank_locals, ko_locals,
                   group_stage_losers, finalists,
                   wbw_locals, cmp_locals>>

RRReturn ==
    /\ pc = "rr_tourn"
    /\ tourn_list = {}
    /\ pc' = "done"
    /\ UNCHANGED <<data, truth, tourn_list, tourn, tourn_data, row, reported, rank_locals,
                   ko_locals, rr_locals,
                   wbw_locals, cmp_locals>>

----------------------------------------------------------------------------
(* The inputs of reconstruct_brackets_rr *)

\* the largest group of a generated round-robin instance
MaxGroupSize == 4

RRMatch(t, a, b, w, rnd) ==
    [rec |-> Row(t, a, b, w), tr |-> [round |-> rnd, playoff |-> FALSE, shape |-> "rr"]]

\* every pair of the players first .. first + size - 1 meets once; with an alternate
\* alt # 0, the last player of the group retires after her first match and alt plays
\* her other matches
GroupMatches(t, first, size, alt) ==
    LET last  == first + size - 1
        pairs == SelectSeq([n \in 1..(size * size) |->
                               <<first + ((n - 1) \div size), first + ((n - 1) % size)>>],
                           LAMBDA pr : pr[1] < pr[2])
        sub(pr) == IF alt # 0 /\ pr[2] = last /\ pr[1] # first THEN alt ELSE pr[2]
    IN  [n \in 1..Len(pairs) |-> RRMatch(t, pairs[n][1], sub(pairs[n]), pairs[n][1], 1)]

\* two groups of size players; the first two of each group reach the semi-finals, the
\* first of a group meets the second of the other; w1 and w2 win the semi-finals
RRInstance(t, size, alt, w1, w2) ==
    LET a1 == 1
        a2 == 2
        b1 == size + 1
        b2 == size + 2
        f1 == IF w1 = 1 THEN a1 ELSE b2
        f2 == IF w2 = 1 THEN b1 ELSE a2
    IN  GroupMatches(t, 1, size, alt) \o GroupMatches(t, size + 1, size, 0)
        \o <<RRMatch(t, a1, b2, f1, 2), RRMatch(t, b1, a2, f2, 2)>>
        \o <<RRMatch(t, f1, f2, f1, 3)>>

\* two groups of size players whose first two meet again in the semi-final of their
\* own group; w1 and w2 win the semi-finals
RRInstanceSameGroup(t, size, w1, w2) ==
    LET a1 == 1
        a2 == 2
        b1 == size + 1
        b2 == size + 2
        f1 == IF w1 = 1 THEN a1 ELSE a2
        f2 == IF w2 = 1 THEN b1 ELSE b2
    IN  GroupMatches(t, 1, size, 0) \o GroupMatches(t, size + 1, size, 0)
        \o <<RRMatch(t, a1, a2, f1, 2), RRMatch(t, b1, b2, f2, 2)>>
        \o <<RRMatch(t, f1, f2, f1, 3)>>

RRInstances ==
    {RRInstance(1, q[1], IF q[2] = 1 THEN 2 * q[1] + 1 ELSE 0, q[3], q[4]) :
        q \in (3..MaxGroupSize) \X {0, 1} \X {1, 2} \X {1, 2}}
    \cup {RRInstanceSameGroup(1, q[1], q[2], q[3]) :
             q \in (4..MaxGroupSize) \X {1, 2} \X {1, 2}}

\* a second tournament-instance in the same list: none, or two groups of three
RRSecond == {<<>>, RRInstance(2, 3, 0, 1, 2)}

RROrders(n) ==
    LET rots == {Rotation(n, s) : s \in 0..(n - 1)}
    IN  rots \cup {[i \in 1..n |-> n + 1 - f[i]] : f \in rots}
             \cup {[i \in 1..n |-> IF i = sw[1] THEN sw[2] ELSE IF i = sw[2] THEN sw[1] ELSE i] :
                      sw \in {x \in (1..n) \X (1..n) : x[1] < x[2]}}

RRInit ==
    /\ \E inst \in RRInstances, snd \in RRSecond :
         \E f \in RROrders(Len(inst) + Len(snd)) :
            LET s == Reorder(inst \o snd, f)
            IN  /\ data = [i \in 1..Len(s) |-> s[i].rec]
                /\ truth = [i \in 1..Len(s) |-> s[i].tr]
    /\ pc = "rr_tourn"
    /\ tourn_list = {data[i].tourn : i \in DOMAIN data}
    /\ tourn = 0
    /\ tourn_data = <<>>
    /\ stage_iterable = <<>>
    /\ stages_left = <<>>
    /\ stage = 0
    /\ round_name = NoRound
    /\ current_stage_losers = {}
    /\ row = 0
    /\ reported = {}
    /\ final_counter = 0
    /\ semi_final_counter = 0
    /\ final_lineup_repeated = 0
    /\ semi_final_lineup_repeated = 0
    /\ group_stage_losers = {}
    /\ finalists = {}
    /\ match_counter = <<>>
    /\ wdl_dict = <<>>
    /\ result = <<>>
    /\ WBWIdle
    /\ CmpIdle

RRNext == RRBeginTourn \/ RRRow \/ RRReturn

\* reconstruct_brackets_rr on one list of rows
SpecRR == RRInit /\ [][RRNext]_vars

----------------------------------------------------------------------------
(* Either reconstruction *)

ReconInit == KOInit \/ RRInit

ReconNext == KONext \/ RRNext

\* one call of reconstruct_brackets or of reconstruct_brackets_rr
SpecRecon == ReconInit /\ [][ReconNext]_vars

----------------------------------------------------------------------------
(* calc_ww and calc_wdl *)

\* get_unique_players: list(set(player 1s + player 2s))
UniquePlayers(d) == {d[i].p1 : i \in DOMAIN d} \cup {d[i].p2 : i \in DOMAIN d}

\* Scores of calc_wdl are fractions <<n, d>> with d > 0, in lowest terms
RECURSIVE GCD(_, _)
GCD(a, b) == IF b = 0 THEN a ELSE GCD(b, a % b)

Abs(n) == IF n < 0 THEN -n ELSE n

Norm(x) == LET g == GCD(Abs(x[1]), x[2]) IN <<x[1] \div g, x[2] \div g>>

\* the sums are formed over the least common denominator
FracAdd(x, y) ==
    LET g == GCD(x[2], y[2])
    IN  Norm(<<x[1] * (y[2] \div g) + y[1] * (x[2] \div g), (x[2] \div g) * y[2]>>)

FracSub(x, y) ==
    LET g == GCD(x[2], y[2])
    IN  Norm(<<x[1] * (y[2] \div g) - y[1] * (x[2] \div g), (x[2] \div g) * y[2]>>)

\* x <= y
FracLeq(x, y) ==
    LET g == GCD(x[2], y[2]) IN x[1] * (y[2] \div g) <= y[1] * (x[2] \div g)

\* a variant of WWKey that counts the match for its loser
WWLoserKey(rec) == rec.loser

\* the key of match_counter that a row increments: row[11]
WWKey(rec) == rec.winner

\* a variant of LoserPenalty that takes the round number itself
LoserPenaltyWhole(r) == <<r, 1>>

\* what a row takes from its loser: 1 / row[14]
LoserPenalty(r) == <<1, r>>

\* the orders in which a dict can list its keys: the keys come from list(set(...)),
\* whose order is any order
KeyOrders(dict) ==
    LET n == Cardinality(DOMAIN dict)
    IN  {g \in [1..n -> DOMAIN dict] : \A i, j \in 1..n : g[i] = g[j] => i = j}

Items(dict, g) == [k \in DOMAIN g |-> <<g[k], dict[g[k]]>>]

\* sorted(match_counter.items(), reverse = True, key = value): the sort is stable, so
\* the outcome is any list of the items with non-increasing values
SortedWW(dict) ==
    {Items(dict, g) : g \in {h \in KeyOrders(dict) :
        \A i \in 1..(Cardinality(DOMAIN dict) - 1) : dict[h[i + 1]] <= dict[h[i]]}}

\* sorted(wdl_dict.items(), reverse = True, key = value)
SortedWDL(dict) ==
    {Items(dict, g) : g \in {h \in KeyOrders(dict) :
        \A i \in 1..(Cardinality(DOMAIN dict) - 1) : FracLeq(dict[h[i + 1]], dict[h[i]])}}

WWBegin ==
    /\ pc = "ww_begin"
    /\ match_counter' = [x \in UniquePlayers(data) |-> 0]
    /\ row' = 1
    /\ pc' = IF data = <<>> THEN "ww_sort" ELSE "ww_row"
    /\ UNCHANGED <<data, truth, tourn_list, tourn, tourn_data, reported, ko_locals,
                   rr_locals, wdl_dict, result,
                   wbw_locals, cmp_locals>>

WWRow ==
    /\ pc = "ww_row"
    /\ row <= Len(data)
    /\ match_counter' = IF WWKey(data[row]) \in DOMAIN match_counter
                        THEN [match_counter EXCEPT ![WWKey(data[row])] = @ + 1]
                        ELSE match_counter  \* except KeyError: pass
    /\ row' = row + 1
    /\ pc' = IF row = Len(data) THEN "ww_sort" ELSE "ww_row"
    /\ UNCHANGED <<data, truth, tourn_list, tourn, tourn_data, reported, ko_locals,
                   rr_locals, wdl_dict, result,
                   wbw_locals, cmp_locals>>

WWReturn ==
    /\ pc = "ww_sort"
    /\ result' \in SortedWW(match_counter)
    /\ pc' = "done"
    /\ UNCHANGED <<data, truth, tourn_list, tourn, tourn_data, row, reported, ko_locals,
                   rr_locals, match_counter, wdl_dict,
                   wbw_locals, cmp_locals>>

WDLBegin ==
    /\ pc = "wdl_begin"
    /\ wdl_dict' = [x \in UniquePlayers(data) |-> <<0, 1>>]
    /\ row' = 1
    /\ pc' = IF data = <<>> THEN "wdl_sort" ELSE "wdl_row"
    /\ UNCHANGED <<data, truth, tourn_list, tourn, tourn_data, reported, ko_locals,
                   rr_locals, match_counter, result,
                   wbw_locals, cmp_locals>>

WDLRow ==
    /\ pc = "wdl_row"
    /\ row <= Len(data)
    /\ LET rec   == data[row]
           after == IF rec.winner \in DOMAIN wdl_dict
                    THEN [wdl_dict EXCEPT ![rec.winner] = FracAdd(@, <<rec.r, 1>>)]
                    ELSE wdl_dict  \* except KeyError: pass
       IN  IF rec.loser \in DOMAIN after
           THEN IF rec.r = 0
                THEN \* 1 / row[14] raises, and only KeyError is caught
                     /\ wdl_dict' = after
                     /\ pc' = "ZeroDivisionError"
                     /\ row' = row
                ELSE /\ wdl_dict' = [after EXCEPT ![rec.loser] = FracSub(@, LoserPenalty(rec.r))]
                     /\ row' = row + 1
                     /\ pc' = IF row = Len(data) THEN "wdl_sort" ELSE "wdl_row"
           ELSE \* except KeyError: pass
                /\ wdl_dict' = after
                /\ row' = row + 1
                /\ pc' = IF row = Len(data) THEN "wdl_sort" ELSE "wdl_row"
    /\ UNCHANGED <<data, truth, tourn_list, tourn, tourn_data, reported, ko_locals,
                   rr_locals, match_counter, result,
                   wbw_locals, cmp_locals>>

WDLReturn ==
    /\ pc = "wdl_sort"
    /\ result' \in SortedWDL(wdl_dict)
    /\ pc' = "done"
    /\ UNCHANGED <<data, truth, tourn_list, tourn, tourn_data, row, reported, ko_locals,
                   rr_locals, match_counter, wdl_dict,
                   wbw_locals, cmp_locals>>

----------------------------------------------------------------------------
(* The inputs of calc_ww and calc_wdl *)

\* the longest list of rows handed to a ranking function
MaxRows == 2
\* the largest round number of a row handed to a ranking function
MaxRound == 2

Players == {"A", "B", "C"}

\* rows as read_data and the reconstruction leave them: the winner is one of the two
\* players, the loser the other; the round number is 0 on a row no reconstruction
\* has labelled
RankRows ==
    {[Row(1, q[1], q[2], q[3]) EXCEPT !.r = q[4]] :
        q \in {x \in Players \X Players \X Players \X (0..MaxRound) :
                  x[1] # x[2] /\ x[3] \in {x[1], x[2]}}}

RankInit ==
    /\ \E n \in 1..MaxRows : data \in [1..n -> RankRows]
    /\ truth = <<>>
    /\ pc \in {"ww_begin", "wdl_begin"}
    /\ tourn_list = {}
    /\ tourn = 0
    /\ tourn_data = <<>>
    /\ stage_iterable = <<>>
    /\ stages_left = <<>>
    /\ stage = 0
    /\ round_name = NoRound
    /\ current_stage_losers = {}
    /\ row = 0
    /\ reported = {}
    /\ final_counter = 0
    /\ semi_final_counter = 0
    /\ final_lineup_repeated = 0
    /\ semi_final_lineup_repeated = 0
    /\ group_stage_losers = {}
    /\ finalists = {}
    /\ match_counter = <<>>
    /\ wdl_dict = <<>>
    /\ result = <<>>
    /\ WBWIdle
    /\ CmpIdle

RankNext == WWBegin \/ WWRow \/ WWReturn \/ WDLBegin \/ WDLRow \/ WDLReturn

\* one call of calc_ww or of calc_wdl
SpecRank == RankInit /\ [][RankNext]_vars

----------------------------------------------------------------------------
(* calc_wbw *)

\* the code's 1000 iterations are cut at this number
MaxIter == 4

\* for i in range(1000)
IterationCap == 1000

\* 0.85
DampingFactor == <<17, 20>>

\* 0.15
RescaleMass == <<3, 20>>

FracMul(x, y) ==
    LET g1 == GCD(Abs(x[1]), y[2])
        g2 == GCD(Abs(y[1]), x[2])
    IN  Norm(<<(x[1] \div g1) * (y[1] \div g2), (x[2] \div g2) * (y[2] \div g1)>>)

\* x / n for an integer n > 0
FracDivInt(x, n) == Norm(<<x[1], x[2] * n>>)

\* the least c with c * 10^e >= b
RECURSIVE CeilDivPow10(_, _)
CeilDivPow10(b, e) == IF e = 0 THEN b ELSE CeilDivPow10((b + 9) \div 10, e - 1)

\* abs(x) < stopping_threshold, for the threshold 10^(-e)
BelowThreshold(x, e) == Abs(x[1]) < CeilDivPow10(x[2], e)

\* the data argument of the running calc_wbw
WBWData == IF caller = "compare_wbw_wta" THEN tourn_wbw_data ELSE data

\* the orders in which list(set(players)) can list the players
PlayerOrders(d) ==
    LET n == Cardinality(UniquePlayers(d))
    IN  {g \in [1..n -> UniquePlayers(d)] : \A a, b \in 1..n : g[a] = g[b] => a = b}

\* [x[11] for x in data if x[12] == k]
BeatenBy(d, k) ==
    LET lost == SelectSeq([j \in 1..Len(d) |-> j], LAMBDA j : d[j].loser = k)
    IN  [m \in 1..Len(lost) |-> d[lost[m]].winner]

\* max([v for v in wbw_dict.values()])
MaxScore(dict) ==
    CHOOSE v \in {dict[p] : p \in DOMAIN dict} : \A p \in DOMAIN dict : FracLeq(dict[p], v)

\* min([v for v in wbw_dict.values()])
MinScore(dict) ==
    CHOOSE v \in {dict[p] : p \in DOMAIN dict} : \A p \in DOMAIN dict : FracLeq(v, dict[p])

\* a variant of ShareOfScore that hands the whole score to every victor
WholeScore(score, nvictors) == score

\* wbw_dict[k] / len(victors)
ShareOfScore(score, nvictors) == FracDivInt(score, nvictors)

\* "for victor in victors: shares_dict[victor] += share_of_score", up to the first
\* victor that is not a key of shares_dict
RECURSIVE AddShares(_, _, _)
AddShares(sh, victors, share) ==
    IF victors = <<>> \/ Head(victors) \notin DOMAIN sh
    THEN sh
    ELSE AddShares([sh EXCEPT ![Head(victors)] = FracAdd(@, share)], Tail(victors), share)

\* a variant of NeverLostShares that passes the score of a player who never lost
\* to her own share
CreditOwnShare(sh, k, score) == [sh EXCEPT ![k] = FracAdd(@, score)]

\* what the branch of a player who never lost does to shares_dict: nothing
NeverLostShares(sh, k, score) == sh

\* wbw_dict[k] += wbw_dict[k]
SelfCredit(dict, k) == [dict EXCEPT ![k] = FracAdd(@, @)]

\* a variant of Rescale that does not divide the 0.15 among the players
RescaleUndivided(v, n) == FracAdd(FracMul(v, DampingFactor), RescaleMass)

\* (v * 0.85) + (0.15 / n)
Rescale(v, n) == FracAdd(FracMul(v, DampingFactor), FracDivInt(RescaleMass, n))

\* the stopping criterion
StoppingCriterion(max_pre, min_pre, max_post, min_post, e) ==
    /\ BelowThreshold(FracSub(max_post, max_pre), e)
    /\ BelowThreshold(FracSub(min_post, min_pre), e)

\* sorted(wbw_dict.items(), reverse = True, key = value): the sort is stable, so items
\* of equal score keep the order of the dict, which is that of unique_players
SortedWBW(dict, order) ==
    LET n == Len(order)
        h == CHOOSE g \in [1..n -> 1..n] :
                /\ \A a, b \in 1..n : g[a] = g[b] => a = b
                /\ \A a, b \in 1..n :
                      a < b => \/ ~FracLeq(dict[order[g[a]]], dict[order[g[b]]])
                               \/ (dict[order[g[a]]] = dict[order[g[b]]] /\ g[a] < g[b])
    IN  [m \in 1..n |-> <<order[h[m]], dict[order[h[m]]]>>]

WBWBegin ==
    /\ pc = "wbw_begin"
    /\ IF WBWData = <<>>
       THEN \* max() of an empty list, in the first iteration
            /\ pc' = "ValueError"
            /\ UNCHANGED <<unique_players, wbw_dict, beaten_by_dict>>
       ELSE /\ pc' = "wbw_iter"
            /\ unique_players' \in PlayerOrders(WBWData)
            /\ wbw_dict' = [x \in UniquePlayers(WBWData) |->
                               <<1, Cardinality(UniquePlayers(WBWData))>>]
            /\ beaten_by_dict' = [k \in UniquePlayers(WBWData) |-> BeatenBy(WBWData, k)]
    /\ loop_i' = 0
    /\ UNCHANGED <<data, truth, tourn_list, tourn, tourn_data, row, reported, ko_locals,
                   rr_locals, rank_locals, caller, stopping_threshold, shares_dict,
                   max_score_pre, min_score_pre, player_pos, converged, pre_scores,
                   cmp_locals>>

WBWBeginIter ==
    /\ pc = "wbw_iter"
    /\ loop_i < MaxIter
    /\ shares_dict' = [x \in DOMAIN beaten_by_dict |-> <<0, 1>>]
    /\ max_score_pre' = MaxScore(wbw_dict)
    /\ min_score_pre' = MinScore(wbw_dict)
    /\ player_pos' = 1
    /\ pre_scores' = wbw_dict
    /\ pc' = "wbw_player"
    /\ UNCHANGED <<data, truth, tourn_list, tourn, tourn_data, row, reported, ko_locals,
                   rr_locals, rank_locals, caller, stopping_threshold, unique_players,
                   wbw_dict, beaten_by_dict, loop_i, converged, cmp_locals>>

WBWPlayer ==
    /\ pc = "wbw_player"
    /\ player_pos <= Len(unique_players)
    /\ LET k       == unique_players[player_pos]
           victors == beaten_by_dict[k]
       IN  IF Len(victors) # 0
           THEN /\ shares_dict' =
                      AddShares(shares_dict, victors, ShareOfScore(wbw_dict[k], Len(victors)))
                /\ pc' = IF \A m \in DOMAIN victors : victors[m] \in DOMAIN shares_dict
                         THEN "wbw_player"
                         ELSE "KeyError"
                /\ UNCHANGED wbw_dict
           ELSE /\ shares_dict' = NeverLostShares(shares_dict, k, wbw_dict[k])
                /\ wbw_dict' = SelfCredit(wbw_dict, k)
                /\ pc' = "wbw_player"
    /\ player_pos' = player_pos + 1
    /\ UNCHANGED <<data, truth, tourn_list, tourn, tourn_data, row, reported, ko_locals,
                   rr_locals, rank_locals, caller, stopping_threshold, unique_players,
                   beaten_by_dict, loop_i, max_score_pre, min_score_pre, converged,
                   pre_scores, cmp_locals>>

WBWEndIter ==
    /\ pc = "wbw_player"
    /\ player_pos > Len(unique_players)
    /\ wbw_dict' = [k \in DOMAIN shares_dict |->
                       Rescale(shares_dict[k], Len(unique_players))]
    /\ converged' = StoppingCriterion(max_score_pre, min_score_pre, MaxScore(wbw_dict'),
                                      MinScore(wbw_dict'), stopping_threshold)
    /\ IF converged' \/ loop_i + 1 = IterationCap
       THEN pc' = "wbw_sort" /\ UNCHANGED loop_i
       ELSE pc' = "wbw_iter" /\ loop_i' = loop_i + 1
    /\ UNCHANGED <<data, truth, tourn_list, tourn, tourn_data, row, reported, ko_locals,
                   rr_locals, rank_locals, caller, stopping_threshold, unique_players,
                   beaten_by_dict, shares_dict, max_score_pre, min_score_pre, player_pos,
                   pre_scores, cmp_locals>>

WBWReturn ==
    /\ pc = "wbw_sort"
    /\ result' = SortedWBW(wbw_dict, unique_players)
    /\ pc' = IF caller = "compare_wbw_wta" THEN "cmp_ranks" ELSE "done"
    /\ UNCHANGED <<data, truth, tourn_list, tourn, tourn_data, row, reported, ko_locals,
                   rr_locals, match_counter, wdl_dict, wbw_locals, cmp_locals>>

WBWNext == WBWBegin \/ WBWBeginIter \/ WBWPlayer \/ WBWEndIter \/ WBWReturn

----------------------------------------------------------------------------
(* The inputs of calc_wbw *)

\* the longest list of rows handed to calc_wbw
MaxWBWRows == 3

\* the pairs of Players, the first in the alphabet as player 1
WBWPairs == {<<"A", "B">>, <<"A", "C">>, <<"B", "C">>}

\* rows as read_data builds them: either player of the pair wins
WBWRows == {Row(1, q[1][1], q[1][2], q[1][q[2]]) : q \in WBWPairs \X {1, 2}}

WBWInit ==
    /\ \E n \in 1..MaxWBWRows : data \in [1..n -> WBWRows]
    /\ truth = <<>>
    /\ pc = "wbw_begin"
    /\ tourn_list = {}
    /\ tourn = 0
    /\ tourn_data = <<>>
    /\ stage_iterable = <<>>
    /\ stages_left = <<>>
    /\ stage = 0
    /\ round_name = NoRound
    /\ current_stage_losers = {}
    /\ row = 0
    /\ reported = {}
    /\ final_counter = 0
    /\ semi_final_counter = 0
    /\ final_lineup_repeated = 0
    /\ semi_final_lineup_repeated = 0
    /\ group_stage_losers = {}
    /\ finalists = {}
    /\ match_counter = <<>>
    /\ wdl_dict = <<>>
    /\ result = <<>>
    /\ caller = ""
    /\ stopping_threshold \in {1, 11}
    /\ unique_players = <<>>
    /\ wbw_dict = <<>>
    /\ beaten_by_dict = <<>>
    /\ shares_dict = <<>>
    /\ loop_i = 0
    /\ max_score_pre = <<0, 1>>
    /\ min_score_pre = <<0, 1>>
    /\ player_pos = 0
    /\ converged = FALSE
    /\ pre_scores = <<>>
    /\ CmpIdle

\* one call of calc_wbw
SpecWBW == WBWInit /\ [][WBWNext]_vars

----------------------------------------------------------------------------
(* compare_wbw_wta *)

\* A tournament-instance x[10] is the pair <<name, start>> of the name x[0] and the
\* start date x[1], a number of days; tourn.split()[-1] gives the start back
StartDate(t) == t[2]

\* timedelta(weeks = 52)
WindowWeeks == 52

\* [x for x in all_data if x[1] >= weeks_52_prior and x[1] <= start_date]
WindowData(ad, t) ==
    SelectSeq(ad, LAMBDA x : /\ x.date >= StartDate(t) - 7 * WindowWeeks
                             /\ x.date <= StartDate(t))

\* {k : [v] for k, v in tourn_wbw_scores}
RanksData(scores) ==
    [k \in {scores[m][1] : m \in DOMAIN scores} |->
        <<scores[CHOOSE m \in DOMAIN scores : scores[m][1] = k][2]>>]

\* {k : [rank] for rank, k in enumerate(sorted(ranks_data, ...), 1)}: the sort is
\* stable and tourn_wbw_scores is sorted already, so the rank is the position in it
RanksDataAlt(scores) ==
    [k \in {scores[m][1] : m \in DOMAIN scores} |->
        <<CHOOSE m \in DOMAIN scores : scores[m][1] = k>>]

\* the condition under which a rank is appended
TakesRank(rd, player, rank) == Len(rd[player]) = 1 /\ rank # 0

\* a variant of CaptureRank that also appends the rank 0
CaptureAnyRank(rd, player, rank, takes) ==
    IF Len(rd[player]) = 1 THEN [rd EXCEPT ![player] = Append(@, rank)] ELSE rd

\* a variant of CaptureRank that replaces a rank appended earlier
CaptureLatestRank(rd, player, rank, takes) ==
    IF rank # 0 THEN [rd EXCEPT ![player] = <<@[1], rank>>] ELSE rd

\* ranks_data[row[4]].append(row[6]), under the condition of its if
CaptureRank(rd, player, rank, takes) ==
    IF takes THEN [rd EXCEPT ![player] = Append(@, rank)] ELSE rd

\* [v for v in ranks_data.values() if len(v) == 2], in the order of the dict, which
\* is that of tourn_wbw_scores
TournRanks(rd, scores) ==
    LET two == SelectSeq([m \in DOMAIN scores |-> scores[m][1]], LAMBDA k : Len(rd[k]) = 2)
    IN  [m \in 1..Len(two) |-> rd[two[m]]]

\* the players of tourn_ranks, in its order
TournRanksPlayers(rd, scores, t) ==
    LET two == SelectSeq([m \in DOMAIN scores |-> scores[m][1]], LAMBDA k : Len(rd[k]) = 2)
    IN  [m \in 1..Len(two) |-> [tourn |-> t, player |-> two[m]]]

\* np.column_stack((all_ranks, [x[0] for x in all_ranks_alt]))
ColumnStack(ar, alt) == [m \in 1..Len(ar) |-> <<ar[m][1], ar[m][2], alt[m][1]>>]

CmpBeginTourn ==
    /\ pc = "cmp_tourn"
    /\ \E t \in tourn_list :
         /\ tourn' = t
         /\ tourn_list' = tourn_list \ {t}
         /\ tourn_data' = TournData(data, t)
         /\ tourn_wbw_data' = WindowData(all_data, t)
    /\ caller' = "compare_wbw_wta"
    /\ pc' = "wbw_begin"
    /\ UNCHANGED <<data, truth, row, reported, ko_locals, rr_locals, rank_locals,
                   stopping_threshold, unique_players, wbw_dict, beaten_by_dict,
                   shares_dict, loop_i, max_score_pre, min_score_pre, player_pos,
                   converged, pre_scores, all_data, ranks_data, ranks_data_alt, all_ranks,
                   all_ranks_alt, emitted>>

\* calc_wbw has returned and its locals are gone
CmpRanks ==
    /\ pc = "cmp_ranks"
    /\ ranks_data' = RanksData(result)
    /\ ranks_data_alt' = RanksDataAlt(result)
    /\ row' = 1
    /\ pc' = "cmp_row"
    /\ caller' = ""
    /\ unique_players' = <<>>
    /\ wbw_dict' = <<>>
    /\ beaten_by_dict' = <<>>
    /\ shares_dict' = <<>>
    /\ loop_i' = 0
    /\ max_score_pre' = <<0, 1>>
    /\ min_score_pre' = <<0, 1>>
    /\ player_pos' = 0
    /\ converged' = FALSE
    /\ pre_scores' = <<>>
    /\ UNCHANGED <<data, truth, tourn_list, tourn, tourn_data, reported, ko_locals,
                   rr_locals, rank_locals, stopping_threshold, all_data, tourn_wbw_data,
                   all_ranks, all_ranks_alt, emitted>>

CmpRow ==
    /\ pc = "cmp_row"
    /\ row <= Len(tourn_data)
    /\ LET rec == data[tourn_data[row]]
       IN  IF rec.p1 \notin DOMAIN ranks_data
           THEN \* ranks_data[row[4]] of a player with no row in the window
                /\ pc' = "KeyError"
                /\ UNCHANGED <<ranks_data, ranks_data_alt, row>>
           ELSE LET t1  == TakesRank(ranks_data, rec.p1, rec.rank1)
                    rd1 == CaptureRank(ranks_data, rec.p1, rec.rank1, t1)
                    ra1 == CaptureRank(ranks_data_alt, rec.p1, rec.rank1, t1)
                IN  IF rec.p2 \notin DOMAIN rd1
                    THEN /\ pc' = "KeyError"
                         /\ ranks_data' = rd1
                         /\ ranks_data_alt' = ra1
                         /\ UNCHANGED row
                    ELSE /\ ranks_data' =
                               CaptureRank(rd1, rec.p2, rec.rank2,
                                           TakesRank(rd1, rec.p2, rec.rank2))
                         /\ ranks_data_alt' =
                               CaptureRank(ra1, rec.p2, rec.rank2,
                                           TakesRank(rd1, rec.p2, rec.rank2))
                         /\ row' = row + 1
                         /\ pc' = "cmp_row"
    /\ UNCHANGED <<data, truth, tourn_list, tourn, tourn_data, reported, ko_locals,
                   rr_locals, rank_locals, wbw_locals, all_data, tourn_wbw_data,
                   all_ranks, all_ranks_alt, emitted>>

CmpEndTourn ==
    /\ pc = "cmp_row"
    /\ row > Len(tourn_data)
    /\ all_ranks' = all_ranks \o TournRanks(ranks_data, result)
    /\ all_ranks_alt' = all_ranks_alt \o TournRanks(ranks_data_alt, result)
    /\ emitted' = emitted \o TournRanksPlayers(ranks_data, result, tourn)
    /\ pc' = "cmp_tourn"
    /\ UNCHANGED <<data, truth, tourn_list, tourn, tourn_data, row, reported, ko_locals,
                   rr_locals, rank_locals, wbw_locals, all_data, tourn_wbw_data,
                   ranks_data, ranks_data_alt>>

CmpReturn ==
    /\ pc = "cmp_tourn"
    /\ tourn_list = {}
    /\ result' = ColumnStack(all_ranks, all_ranks_alt)
    /\ pc' = "done"
    /\ UNCHANGED <<data, truth, tourn_list, tourn, tourn_data, row, reported, ko_locals,
                   rr_locals, match_counter, wdl_dict, wbw_locals, cmp_locals>>

CmpNext == CmpBeginTourn \/ CmpRanks \/ CmpRow \/ CmpEndTourn \/ CmpReturn

----------------------------------------------------------------------------
(* The inputs of compare_wbw_wta *)

\* the largest number of rows of the tournament-instance under study
MaxCmpRows == 2

\* a row with the columns compare_wbw_wta reads: the start date x[1] and the official
\* ranks x[6], x[7] of player 1 and player 2, 0 for a player without a rank
CmpRec(t, a, b, w, ra, rb) ==
    [tourn |-> t, date |-> StartDate(t), p1 |-> a, p2 |-> b, rank1 |-> ra, rank2 |-> rb,
     winner |-> w, loser |-> IF w = a THEN b ELSE a, round |-> NoRound, r |-> 0]

\* the instance under study starts on day 365, so that its window is [1, 365]
Studied == <<"T", 365>>

\* the j-th row of the instance under study: A beats B or B beats C, and each of the
\* two players has no rank or the rank j on it
StudiedRows(j) ==
    {CmpRec(Studied, q[1][1], q[1][2], q[1][1], q[2] * j, q[3] * j) :
        q \in {<<"A", "B">>, <<"B", "C">>} \X {0, 1} \X {0, 1}}

\* an earlier instance of one row, on the first day of the window or the day before
Earlier(d) == <<CmpRec(<<"H", d>>, "A", "C", "A", 1, 0)>>

\* the lists of rows of the instance under study
StudiedLists ==
    UNION {{s \in [1..n -> UNION {StudiedRows(j) : j \in 1..n}] :
               \A j \in 1..n : s[j] \in StudiedRows(j)} : n \in 1..MaxCmpRows}

\* the day of the earlier row, in the window of the instance under study or before
\* it, and whether data is the instance under study only or all of all_data
Scenarios == {0, 1} \X BOOLEAN

\* all_data, and the data filtered from it
CmpInputs ==
    {[all |-> Earlier(q[1][1]) \o q[2], only |-> q[1][2]] : q \in Scenarios \X StudiedLists}

CmpInit ==
    /\ \E inp \in CmpInputs :
         /\ all_data = inp.all
         /\ data = IF inp.only THEN Tail(inp.all) ELSE inp.all
    /\ truth = <<>>
    /\ pc = "cmp_tourn"
    /\ tourn_list = {data[j].tourn : j \in DOMAIN data}
    /\ tourn = 0
    /\ tourn_data = <<>>
    /\ stage_iterable = <<>>
    /\ stages_left = <<>>
    /\ stage = 0
    /\ round_name = NoRound
    /\ current_stage_losers = {}
    /\ row = 0
    /\ reported = {}
    /\ final_counter = 0
    /\ semi_final_counter = 0
    /\ final_lineup_repeated = 0
    /\ semi_final_lineup_repeated = 0
    /\ group_stage_losers = {}
    /\ finalists = {}
    /\ match_counter = <<>>
    /\ wdl_dict = <<>>
    /\ result = <<>>
    /\ caller = ""
    /\ stopping_threshold = 11
    /\ unique_players = <<>>
    /\ wbw_dict = <<>>
    /\ beaten_by_dict = <<>>
    /\ shares_dict = <<>>
    /\ loop_i = 0
    /\ max_score_pre = <<0, 1>>
    /\ min_score_pre = <<0, 1>>
    /\ player_pos = 0
    /\ converged = FALSE
    /\ pre_scores = <<>>
    /\ tourn_wbw_data = <<>>
    /\ ranks_data = <<>>
    /\ ranks_data_alt = <<>>
    /\ all_ranks = <<>>
    /\ all_ranks_alt = <<>>
    /\ emitted = <<>>

\* one call of compare_wbw_wta, with the calls of calc_wbw it makes
SpecCmp == CmpInit /\ [][CmpNext \/ WBWNext]_vars

(* Inputs that reference a player absent from the player universe *)

\* rows a caller may hand to a ranking function: the winner and the loser are any two
\* players, so that either may be neither player 1 nor player 2 of any row of the
\* list; the round number is 1
AbsentRows ==
    {[Row(1, q[1][1], q[1][2], q[2]) EXCEPT !.loser = q[3], !.r = 1] :
        q \in {x \in WBWPairs \X Players \X Players : x[2] # x[3]}}

\* all_data and data of compare_wbw_wta: all_data holds an earlier row and, or not,
\* the rows of the instance under study; without them a participant of the instance
\* has no row in the trailing window
AbsentCmpInputs ==
    {[all |-> Earlier(1) \o (IF q[1] THEN q[2] ELSE <<>>), data |-> q[2]] :
        q \in BOOLEAN \X StudiedLists}

AbsentInit ==
    /\ \/ /\ pc \in {"ww_begin", "wdl_begin", "wbw_begin"}
          /\ \E n \in 1..MaxRows : data \in [1..n -> AbsentRows]
          /\ all_data = <<>>
          /\ tourn_list = {}
       \/ /\ pc = "cmp_tourn"
          /\ \E inp \in AbsentCmpInputs :
               /\ all_data = inp.all
               /\ data = inp.data
          /\ tourn_list = {data[j].tourn : j \in DOMAIN data}
    /\ truth = <<>>
    /\ tourn = 0
    /\ tourn_data = <<>>
    /\ stage_iterable = <<>>
    /\ stages_left = <<>>
    /\ stage = 0
    /\ round_name = NoRound
    /\ current_stage_losers = {}
    /\ row = 0
    /\ reported = {}
    /\ final_counter = 0
    /\ semi_final_counter = 0
    /\ final_lineup_repeated = 0
    /\ semi_final_lineup_repeated = 0
    /\ group_stage_losers = {}
    /\ finalists = {}
    /\ match_counter = <<>>
    /\ wdl_dict = <<>>
    /\ result = <<>>
    /\ caller = ""
    /\ stopping_threshold = 11
    /\ unique_players = <<>>
    /\ wbw_dict = <<>>
    /\ beaten_by_dict = <<>>
    /\ shares_dict = <<>>
    /\ loop_i = 0
    /\ max_score_pre = <<0, 1>>
    /\ min_score_pre = <<0, 1>>
    /\ player_pos = 0
    /\ converged = FALSE
    /\ pre_scores = <<>>
    /\ tourn_wbw_data = <<>>
    /\ ranks_data = <<>>
    /\ ranks_data_alt = <<>>
    /\ all_ranks = <<>>
    /\ all_ranks_alt = <<>>
    /\ emitted = <<>>

AbsentNext == RankNext \/ WBWNext \/ CmpNext

\* one call of calc_ww, calc_wdl, calc_wbw or compare_wbw_wta on such an input
SpecAbsent == AbsentInit /\ [][AbsentNext]_vars

----------------------------------------------------------------------------
(* Properties of reconstruct_brackets *)

RowsOf(t) == {i \in DOMAIN data : data[i].tourn = t}

Tourns == {data[i].tourn : i \in DOMAIN data}

ShapeOf(t) == truth[CHOOSE i \in RowsOf(t) : TRUE].shape

\* m = 2^k - 1 for some k >= 1
IsBracketCount(m) == \E k \in 1..m : m = 2^k - 1

\* the k of a complete bracket of m = 2^k - 1 rows
BracketStages(m) == CHOOSE k \in 1..m : m = 2^k - 1

CountRound(t, name) == Cardinality({i \in RowsOf(t) : data[i].round = name})

CountNumber(t, n) == Cardinality({i \in RowsOf(t) : data[i].r = n})

\* C1: when reconstruct_brackets has returned, every row of a complete
\* single-elimination bracket (2^k - 1 rows, no playoff) carries the round in which
\* its match was played, 1 for the earliest round and k for the final, in whatever
\* order the rows were listed.
C1_TrueRounds ==
    pc = "done" =>
        \A i \in DOMAIN data :
            ShapeOf(data[i].tourn) = "bracket" => data[i].r = truth[i].round

\* a returned run on a bracket of at least three stages whose rows were not listed
\* round by round, and where a player listed second won a match
C1_Witness ==
    /\ pc = "done"
    /\ ShapeOf(1) = "bracket"
    /\ \E i \in RowsOf(1) : data[i].r = 3 /\ truth[i].round = 3
    /\ \E i, j \in RowsOf(1) : i < j /\ truth[i].round > truth[j].round
    /\ \E i \in RowsOf(1) : data[i].winner = data[i].p2

\* C2: when reconstruct_brackets has returned, a complete bracket of 2^k - 1 rows,
\* k >= 2, has exactly one row labelled "Final", exactly two labelled "Semi-final"
\* and, for every i in 1..k, exactly 2^(k-i) rows of round number i.
C2_BracketCounts ==
    pc = "done" =>
        \A t \in Tourns :
            (ShapeOf(t) = "bracket" /\ Cardinality(RowsOf(t)) >= 3) =>
                LET k == BracketStages(Cardinality(RowsOf(t)))
                IN  /\ CountRound(t, "Final") = 1
                    /\ CountRound(t, "Semi-final") = 2
                    /\ \A i \in 1..k : CountNumber(t, i) = 2^(k - i)

\* a returned run on a bracket of 7 rows: 4 rows of round 1, 2 semi-finals, 1 final
C2_Witness ==
    /\ pc = "done"
    /\ ShapeOf(1) = "bracket"
    /\ Cardinality(RowsOf(1)) = 7
    /\ CountNumber(1, 1) = 4
    /\ CountRound(1, "Semi-final") = 2
    /\ CountRound(1, "Final") = 1

\* C3: when reconstruct_brackets has returned, the row in which the two semi-final
\* losers meet is labelled "Third-place Playoff" and has the round number of the
\* final, k.
C3_PlayoffLabelled ==
    pc = "done" =>
        \A i \in DOMAIN data :
            truth[i].playoff =>
                /\ data[i].round = ThirdPlacePlayoff
                /\ data[i].r = NumStages(Cardinality(RowsOf(data[i].tourn)))

\* the label of stage-distance d in a tournament of k stages
StageLabel(k, d) ==
    IF d = 1 THEN "Final"
    ELSE IF d = 2 THEN "Semi-final"
    ELSE IF d = 3 THEN "Quarter-final"
    ELSE "Round " \o ToString(k - d + 1)

\* C4: a row that reconstruct_brackets writes while it is at stage-distance d of a
\* tournament of k = round(log2(M+1)) stages gets round number k - d + 1 and the
\* label "Final" (d = 1), "Semi-final" (d = 2), "Quarter-final" (d = 3) or
\* "Round n" with n = k - d + 1 (d > 3).
C4_StageLabels ==
    [][\A i \in DOMAIN data :
          data'[i] # data[i] =>
              LET k == NumStages(Cardinality(RowsOf(data[i].tourn)))
              IN  /\ data'[i].r = k - stage + 1
                  /\ data'[i].round = StageLabel(k, stage)]_vars

\* a returned run on a tournament of four stages: a "Round 1" row of number 1, a
\* quarter-final of number 2 and the final of number 4
C4_Witness ==
    /\ pc = "done"
    /\ \E i, j, l \in RowsOf(1) :
          /\ data[i].round = "Round 1" /\ data[i].r = 1
          /\ data[j].round = "Quarter-final" /\ data[j].r = 2
          /\ data[l].round = "Final" /\ data[l].r = 4

\* C5: when reconstruct_brackets has returned from a list holding a
\* tournament-instance whose number of rows is not 2^k - 1, it has reported that
\* condition to its caller.
C5_BadCountReported ==
    pc = "done" =>
        \A t \in Tourns : ~IsBracketCount(Cardinality(RowsOf(t))) => reported # {}

----------------------------------------------------------------------------
(* Properties of reconstruct_brackets_rr *)

\* C6: when reconstruct_brackets_rr has returned, every row carries one of the
\* pairs ("Group Stage", 1), ("Semi-final", 2), ("Final", 3) as label and number;
\* none is left at the zero sentinel.
C6_AllRowsLabelled ==
    pc = "done" =>
        \A i \in DOMAIN data :
            <<data[i].round, data[i].r>> \in
                {<<GroupStage, 1>>, <<"Semi-final", 2>>, <<"Final", 3>>}

\* a returned run with all three labels, where the closing else labelled a group
\* match of two semi-final losers
C6_Witness ==
    /\ pc = "done"
    /\ Tourns = {1}
    /\ {data[i].round : i \in DOMAIN data} = {GroupStage, "Semi-final", "Final"}
    /\ \E i \in DOMAIN data :
          /\ {data[i].p1, data[i].p2} \cap (group_stage_losers \cup finalists) = {}
          /\ data[i].round = GroupStage

\* C7: when reconstruct_brackets_rr has returned, exactly one row of every
\* tournament-instance is labelled "Final", in whatever order the rows were listed
\* and also when the finalists met in the group stage.
C7_OneFinal ==
    pc = "done" => \A t \in Tourns : CountRound(t, "Final") = 1

\* a returned run where the finalists met twice and the final was listed first
C7_Witness ==
    /\ pc = "done"
    /\ \E i, j \in DOMAIN data :
          /\ i < j
          /\ data[i].tourn = data[j].tourn
          /\ {data[i].p1, data[i].p2} = {data[j].p1, data[j].p2}
          /\ truth[i].round = 3
          /\ data[j].round = "Final"
          /\ data[i].round = GroupStage

----------------------------------------------------------------------------
(* Properties of calc_ww and calc_wdl *)

RECURSIVE SumSeq(_)
SumSeq(s) == IF s = <<>> THEN 0 ELSE Head(s) + SumSeq(Tail(s))

Wins(p) == {i \in DOMAIN data : data[i].winner = p}

Losses(p) == {i \in DOMAIN data : data[i].loser = p}

\* the entry of player p in a returned list
Entries(p) == {k \in DOMAIN result : result[k][1] = p}

\* C8: calc_ww returns, for every player appearing as player 1 or player 2, a
\* non-negative integer equal to the number of rows that player won, and the scores
\* sum to the number of rows whose winner is one of the row's two players.
C8_WinCounts ==
    (pc = "done" /\ match_counter # <<>>) =>
        /\ \A p \in UniquePlayers(data) :
              \E k \in DOMAIN result :
                  /\ Entries(p) = {k}
                  /\ result[k][2] \in Nat
                  /\ result[k][2] = Cardinality(Wins(p))
        /\ SumSeq([k \in DOMAIN result |-> result[k][2]])
              = Cardinality({i \in DOMAIN data : data[i].winner \in {data[i].p1, data[i].p2}})

\* a returned calc_ww where one player won twice and another appears and never won
C8_Witness ==
    /\ pc = "done"
    /\ match_counter # <<>>
    /\ \E k, l \in DOMAIN result : result[k][2] = 2 /\ result[l][2] = 0

RECURSIVE Factorial(_)
Factorial(n) == IF n = 0 THEN 1 ELSE n * Factorial(n - 1)

RECURSIVE SumOver(_, _)
SumOver(S, f) ==
    IF S = {} THEN 0 ELSE LET x == CHOOSE y \in S : TRUE IN f[x] + SumOver(S \ {x}, f)

\* (sum of r over the rows p won) - (sum of 1/r over the rows p lost), as a
\* fraction over the denominator MaxRound!
ExpectedWDL(p) ==
    LET den == Factorial(MaxRound)
    IN  <<den * SumOver(Wins(p), [i \in DOMAIN data |-> data[i].r])
            - SumOver(Losses(p), [i \in DOMAIN data |-> den \div data[i].r]),
          den>>

FracEq(x, y) == x[1] * y[2] = y[1] * x[2]

\* C9: calc_wdl returns for each player the sum of the round numbers of the rows
\* she won minus the sum of 1/round-number over the rows she lost (round numbers
\* >= 1); for the single row 'A beats B in round 1' that is +1 for A and -1 for B.
C9_WDLScores ==
    (pc = "done" /\ wdl_dict # <<>>) =>
        /\ \A p \in UniquePlayers(data) :
              \E k \in DOMAIN result :
                  /\ Entries(p) = {k}
                  /\ FracEq(result[k][2], ExpectedWDL(p))
        /\ (Len(data) = 1 /\ data[1].r = 1) =>
              result = <<<<data[1].winner, <<1, 1>>>>, <<data[1].loser, <<-1, 1>>>>>>

\* a returned calc_wdl on two rows of round 2: a player won one and lost the other
C9_Witness ==
    /\ pc = "done"
    /\ wdl_dict # <<>>
    /\ Len(data) = 2
    /\ \E p \in Players : Wins(p) # {} /\ Losses(p) # {} /\ wdl_dict[p] = <<3, 2>>

\* C10: calc_wdl never fails with a division by zero: a row whose round number is
\* 0 is guarded and the function completes.
C10_NoZeroDivision == pc # "ZeroDivisionError"

----------------------------------------------------------------------------
(* Properties of calc_wbw *)

RECURSIVE SumFracs(_, _)
SumFracs(S, f) ==
    IF S = {} THEN <<0, 1>>
    ELSE LET x == CHOOSE y \in S : TRUE IN FracAdd(f[x], SumFracs(S \ {x}, f))

\* the sum of the scores of all players
TotalScore(dict) == SumFracs(DOMAIN dict, dict)

\* the number of rows q lost
NumLosses(q) == Cardinality({j \in DOMAIN data : data[j].loser = q})

\* 0.85 * (sum over the rows p won of score(loser) / number-of-losses(loser)) + 0.15 / N
OneIteration(scores) ==
    [p \in DOMAIN scores |->
        FracAdd(FracMul(<<17, 20>>,
                        SumFracs({j \in DOMAIN data : data[j].winner = p},
                                 [j \in DOMAIN data |->
                                     FracDivInt(scores[data[j].loser],
                                                NumLosses(data[j].loser))])),
                <<3, 20 * Cardinality(DOMAIN scores)>>)]

\* an iteration of the running call has been completed
IterationCompleted == pc \in {"wbw_sort", "done"} \/ (pc = "wbw_iter" /\ loop_i > 0)

\* C11: in calc_wbw the scores of all players sum to 1 after every completed
\* iteration, also when some player never lost a match.
C11_SumToOne == IterationCompleted => TotalScore(wbw_dict) = <<1, 1>>

\* C12: when calc_wbw has left its loop by the convergence test, one more iteration
\* applied to the returned scores changes every player's score by less than
\* stopping_threshold.
C12_FixedPoint ==
    (pc = "done" /\ converged) =>
        \A p \in DOMAIN wbw_dict :
            BelowThreshold(FracSub(OneIteration(wbw_dict)[p], wbw_dict[p]),
                           stopping_threshold)

----------------------------------------------------------------------------
(* Properties of all three ranking functions *)

\* the scores of a returned list do not increase from first to last
NonIncreasing ==
    \A k \in 1..(Len(result) - 1) :
        IF match_counter # <<>>
        THEN result[k + 1][2] <= result[k][2]
        ELSE FracLeq(result[k + 1][2], result[k][2])

\* the returned list has exactly one pair for each player of the input
OnePairEach ==
    /\ Len(result) = Cardinality(UniquePlayers(data))
    /\ \A p \in UniquePlayers(data) : Cardinality(Entries(p)) = 1

\* C14: on every non-empty input each of calc_ww, calc_wdl and calc_wbw returns:
\* the call ends in no exception, and the list it returns has exactly one pair for
\* each player appearing as player 1 or player 2, the scores non-increasing.
C14_OnePairEachSorted ==
    pc \in {"done", "ZeroDivisionError", "ValueError", "KeyError"} =>
        pc = "done" /\ OnePairEach /\ NonIncreasing

----------------------------------------------------------------------------
(* Properties of compare_wbw_wta *)

\* the records of instance t on which player p appears, in input order
AppearsOn(t, p) ==
    SelectSeq([j \in 1..Len(data) |-> j],
              LAMBDA j : data[j].tourn = t /\ p \in {data[j].p1, data[j].p2})

\* the official rank of player p on record j
RankOn(j, p) == IF data[j].p1 = p THEN data[j].rank1 ELSE data[j].rank2

\* the records of AppearsOn(t, p) on which p has a rank
RankedOn(t, p) == SelectSeq(AppearsOn(t, p), LAMBDA j : RankOn(j, p) # 0)

\* the output rows of player p for instance t
EmittedFor(t, p) == {m \in DOMAIN emitted : emitted[m] = [tourn |-> t, player |-> p]}

\* C15: for data that is a subset of all_data, compare_wbw_wta returns, per
\* tournament-instance of data, exactly one row for each player with a non-zero
\* official rank on some record of the instance, and no row for a player whose rank
\* is 0 on every record of the instance, although she has a WBW score.
C15_RowsForRankedPlayers ==
    (pc = "done" /\ all_data # <<>>) =>
        /\ Len(result) = Len(emitted)
        /\ \A t \in Tourns : \A p \in Players :
              Cardinality(EmittedFor(t, p)) = IF RankedOn(t, p) # <<>> THEN 1 ELSE 0

\* a returned call where a player of the instance under study had the rank 0 on two
\* records and got no row, another got one, and a third had a WBW score from an
\* earlier instance only
C15_Witness ==
    /\ pc = "done"
    /\ all_data # <<>>
    /\ \E p, q, u \in Players :
          /\ Len(AppearsOn(Studied, p)) = 2 /\ RankedOn(Studied, p) = <<>>
          /\ EmittedFor(Studied, p) = {}
          /\ EmittedFor(Studied, q) # {}
          /\ AppearsOn(Studied, u) = <<>>
          /\ \E j \in DOMAIN all_data :
                u = all_data[j].p2 /\ all_data[j].date >= StartDate(Studied) - 7 * WindowWeeks

\* C19 as claimed: the official rank of a player's output row is the rank on the
\* first record of the instance on which the player appears.
C19_FirstRecordRank ==
    (pc = "done" /\ all_data # <<>>) =>
        \A m \in DOMAIN emitted :
            result[m][2] = RankOn(AppearsOn(emitted[m].tourn, emitted[m].player)[1],
                                  emitted[m].player)

\* the records of the current instance that the row loop has passed
Passed == {tourn_data[m] : m \in 1..(row - 1)}

\* C19, amended: the official rank of a player's output row is the rank on the first
\* record of the instance on which the player has a non-zero rank; while the records
\* of the instance are read, a rank once captured is the one of the first such
\* record passed, and the later records do not change it.
C19_FirstRankedRecord ==
    /\ (pc = "done" /\ all_data # <<>>) =>
          \A m \in DOMAIN emitted :
              result[m][2] = RankOn(RankedOn(emitted[m].tourn, emitted[m].player)[1],
                                    emitted[m].player)
    /\ pc = "cmp_row" =>
          \A p \in DOMAIN ranks_data :
              LET seen == SelectSeq(RankedOn(tourn, p), LAMBDA j : j \in Passed)
              IN  IF seen = <<>>
                  THEN Len(ranks_data[p]) = 1
                  ELSE /\ Len(ranks_data[p]) = 2
                       /\ ranks_data[p][2] = RankOn(seen[1], p)
                       /\ ranks_data_alt[p][2] = RankOn(seen[1], p)

\* a returned call where one player had the ranks 0 and then 2 and got the row of
\* rank 2, and another had the ranks 1 and then 2 and got the row of rank 1
C19_Witness ==
    /\ pc = "done"
    /\ all_data # <<>>
    /\ \E p, q \in Players : \E m, n \in DOMAIN emitted :
          /\ emitted[m] = [tourn |-> Studied, player |-> p]
          /\ emitted[n] = [tourn |-> Studied, player |-> q]
          /\ Len(AppearsOn(Studied, p)) = 2 /\ Len(AppearsOn(Studied, q)) = 2
          /\ RankOn(AppearsOn(Studied, p)[1], p) = 0 /\ result[m][2] = 2
          /\ RankOn(AppearsOn(Studied, q)[1], q) = 1
          /\ RankOn(AppearsOn(Studied, q)[2], q) = 2 /\ result[n][2] = 1

----------------------------------------------------------------------------
(* Properties of the repeated line-ups of reconstruct_brackets_rr *)

\* the two players of a record
Pair(j) == {data[j].p1, data[j].p2}

\* the records of instance t with the line-up of record j
SamePair(t, j) == {l \in RowsOf(t) : Pair(l) = Pair(j)}

\* the first and the last of a set of records, in iteration order
First(S) == CHOOSE j \in S : \A l \in S : j <= l

Last(S) == CHOOSE j \in S : \A l \in S : l <= j

\* the final of instance t as it was played
FinalOf(t) == CHOOSE j \in RowsOf(t) : truth[j].round = 3

\* the semi-finals of instance t as they were played
SemiFinalsOf(t) == {j \in RowsOf(t) : truth[j].round = 2}

\* the row loop is through with instance t
Reconstructed(t) == t \notin tourn_list /\ (pc \in {"rr_tourn", "done"} \/ tourn # t)

\* C16: when the two finalists appear together in two records of an instance, the
\* later-encountered record ends labelled ("Final", 3) and the earlier-encountered
\* one, labelled ("Final", 3) from the moment the loop passes it until it reaches
\* the later one, ends as ("Group Stage", 1).
C16_LaterIsFinal ==
    \A t \in Tourns :
        LET both == SamePair(t, FinalOf(t))
        IN  Cardinality(both) = 2 =>
              /\ Reconstructed(t) =>
                    /\ <<data[Last(both)].round, data[Last(both)].r>> = <<"Final", 3>>
                    /\ <<data[First(both)].round, data[First(both)].r>> = <<GroupStage, 1>>
              /\ (pc = "rr_row" /\ tourn = t /\ First(both) \in Passed
                     /\ Last(both) \notin Passed) =>
                    <<data[First(both)].round, data[First(both)].r>> = <<"Final", 3>>

\* a returned run where the finalists met in their group and the final was listed
\* after that match
C16_Witness ==
    /\ pc = "done"
    /\ \E j, l \in RowsOf(1) :
          /\ j < l
          /\ Pair(j) = Pair(l)
          /\ truth[j].round = 1
          /\ truth[l].round = 3
          /\ <<data[j].round, data[j].r>> = <<GroupStage, 1>>
          /\ <<data[l].round, data[l].r>> = <<"Final", 3>>

\* C17: when the two players of a semi-final, a finalist and a semi-finalist, also
\* met in the group phase, the later-encountered record of that line-up ends
\* labelled ("Semi-final", 2) and the earlier-encountered one ("Group Stage", 1), and
\* exactly two records of the instance end labelled "Semi-final", in whatever order
\* the records were listed.
C17_LaterIsSemiFinal ==
    pc = "done" =>
        \A t \in Tourns : \A s \in SemiFinalsOf(t) :
            Cardinality(SamePair(t, s)) = 2 =>
                /\ <<data[Last(SamePair(t, s))].round, data[Last(SamePair(t, s))].r>>
                      = <<"Semi-final", 2>>
                /\ <<data[First(SamePair(t, s))].round, data[First(SamePair(t, s))].r>>
                      = <<GroupStage, 1>>
                /\ CountRound(t, "Semi-final") = 2

----------------------------------------------------------------------------
(* Properties of both reconstructions *)

\* the round fields of record j hold a value other than the zero sentinel
Classified(j) == data[j].round # NoRound \/ data[j].r # 0

\* C20 as claimed: once the round label and round number of a record hold a
\* non-zero value, no later step of the reconstruction writes them again.
C20_WrittenOnce ==
    [][\A j \in DOMAIN data : Classified(j) => data'[j] = data[j]]_vars

\* C20, amended: a step writes the label and the number of a record together; in
\* reconstruct_brackets a classified record is never written again; in
\* reconstruct_brackets_rr the only write to a classified record is the re-update
\* that turns the remembered first "Final" record, or the remembered first
\* "Semi-final" record, into ("Group Stage", 1), after which it changes no more.
C20_WrittenOnceOrReupdated ==
    [][\A j \in DOMAIN data :
          /\ (data'[j].round = NoRound) = (data'[j].r = 0)
          /\ Classified(j) =>
                \/ data'[j] = data[j]
                \/ /\ pc = "rr_row"
                   /\ \/ j = final_lineup_repeated /\ data[j].round = "Final"
                      \/ j = semi_final_lineup_repeated /\ data[j].round = "Semi-final"
                   /\ data'[j] = GroupRow(data[j])]_vars

\* a returned reconstruct_brackets_rr whose remembered "Final" record and remembered
\* "Semi-final" record were both re-updated
C20_Witness ==
    /\ pc = "done"
    /\ final_lineup_repeated # 0
    /\ semi_final_lineup_repeated # 0
    /\ data[final_lineup_repeated].round = GroupStage
    /\ data[semi_final_lineup_repeated].round = GroupStage
    /\ \E j \in DOMAIN data : data[j].round = "Final"

----------------------------------------------------------------------------
(* Properties of the ranking functions on absent players *)

\* the players a row of the input names as winner or loser without any row of the
\* input having them as player 1 or player 2
AbsentPlayers ==
    ({data[j].winner : j \in DOMAIN data} \cup {data[j].loser : j \in DOMAIN data})
        \ UniquePlayers(data)

\* the participants of the input of compare_wbw_wta that have no row in all_data
AbsentParticipants == UniquePlayers(data) \ UniquePlayers(all_data)

\* C21: in calc_ww, calc_wdl, calc_wbw and compare_wbw_wta a record that references
\* a player absent from the player universe in use (a winner or loser that is not
\* player 1 or player 2 of any input record, or a tournament participant with no
\* record in the trailing window) is skipped and never aborts the computation: no
\* call ends in a KeyError, and a returned ranking has one pair for each player of
\* the input.
C21_AbsentPlayerSkipped ==
    /\ pc # "KeyError"
    /\ (pc = "done" /\ all_data = <<>>) => OnePairEach

====
